---- MODULE Spec2Model ----
(***************************************************************************)
(* Model of the NMEA 0183 fix aggregation engine (src/src/lib.rs) and of   *)
(* the top-level sentence decode it calls (src/src/parse.rs).              *)
(*                                                                         *)
(* A sentence is modelled after tokenisation: a record holding the byte    *)
(* length, the talker id, the message id, the checksum digits' value, the  *)
(* XOR of the checksummed bytes and the comma-separated fields.  Option<T> *)
(* is a sequence of length 0 (None) or 1 (Some).  Floating point values    *)
(* are integers (speeds in thousandths of a knot or of a km/h).            *)
(***************************************************************************)
EXTENDS Integers, Sequences, FiniteSets, TLC

VARIABLES nmea, inp, op, ret, hist

vars == <<nmea, inp, op, ret, hist>>

---------------------------------------------------------------------------
(* Bound of the model, and the length ceiling of the program *)

\* number of distinct fix timestamps a sentence can carry
MaxTime == 2

\* largest number_of_sentences a GSV sentence announces
MaxScan == 3

\* parse_nmea_sentence: the largest byte length of a sentence it accepts
MaxSentenceLen == 102

---------------------------------------------------------------------------
(* Option<T> *)

None == <<>>
Some(x) == <<x>>
IsSome(o) == o # <<>>
IsNone(o) == o = <<>>

---------------------------------------------------------------------------
(* Closed sum types *)

FixTypes == {"Invalid", "Gps", "DGps", "Pps", "Rtk", "FloatRtk",
             "Estimated", "Manual", "Simulation"}

GnssTypes == {"Galileo", "Gps", "Glonass"}

\* impl From<char> for FixType
FixTypeFromChar(x) ==
    CASE x = "0" -> "Invalid"
      [] x = "1" -> "Gps"
      [] x = "2" -> "DGps"
      [] x = "3" -> "Pps"
      [] x = "4" -> "Rtk"
      [] x = "5" -> "FloatRtk"
      [] x = "6" -> "Estimated"
      [] x = "7" -> "Manual"
      [] x = "8" -> "Simulation"
      [] OTHER   -> "Invalid"

\* the status letter of an RMC sentence (closure of do_parse_rmc)
RmcStatusFromChar(x) ==
    CASE x = "A" -> "Autonomous"
      [] x = "D" -> "Differential"
      [] x = "V" -> "Invalid"

\* RmcStatusOfFix -> FixType (closure of merge_rmc_data)
FixTypeFromRmcStatus(v) ==
    CASE v = "Autonomous"   -> "Gps"
      [] v = "Differential" -> "DGps"
      [] v = "Invalid"      -> "Invalid"

---------------------------------------------------------------------------
(* Results *)

Ok(v) == [ok |-> TRUE, val |-> v]
Err(e) == [ok |-> FALSE, val |-> e]

---------------------------------------------------------------------------
(* Framing of the bytes (src/src/parse.rs) *)

\* u8 ^ u8
RECURSIVE Xor(_, _)
Xor(a, b) ==
    IF a = 0 THEN b
    ELSE IF b = 0 THEN a
    ELSE ((a + b) % 2) + 2 * Xor(a \div 2, b \div 2)

\* bytes.fold(0, |c, x| c ^ *x) over the bytes at places lo..hi; XOR is
\* associative and the fold is evaluated by halves
RECURSIVE Fold(_, _, _)
Fold(bytes, lo, hi) ==
    IF lo > hi THEN 0
    ELSE IF lo = hi THEN Xor(0, bytes[lo])
    ELSE LET mid == (lo + hi) \div 2
         IN  Xor(Fold(bytes, lo, mid), Fold(bytes, mid + 1, hi))

\* checksum: the XOR of the bytes
checksum(bytes) == Fold(bytes, 1, Len(bytes))

\* the chain of calc_checksum without the comma between id and payload
chain_without_comma(talker_id, message_id, data) ==
    checksum(talker_id \o message_id \o data)

\* the chain of NmeaSentence::calc_checksum: talker id, message id, one
\* comma, payload
checksum_chain(talker_id, message_id, data) ==
    checksum(talker_id \o message_id \o <<44>> \o data)

\* char::to_digit(16): 0-9, a-f, A-F, else -1
HexDigit(b) ==
    IF b \in 48..57 THEN b - 48
    ELSE IF b \in 65..70 THEN b - 55
    ELSE IF b \in 97..102 THEN b - 87
    ELSE -1

\* parse_hex on the two bytes after '*': u8::from_str_radix(.., 16), which
\* takes a leading '+' for a sign and reads the bytes one by one, so that a
\* byte that is no hex digit (a byte above 127 too) is a NumberFail
parse_hex(data) ==
    IF data[1] = 43
    THEN (IF HexDigit(data[2]) >= 0 THEN Ok(HexDigit(data[2])) ELSE Err("NumberFail"))
    ELSE IF HexDigit(data[1]) >= 0 /\ HexDigit(data[2]) >= 0
    THEN Ok(16 * HexDigit(data[1]) + HexDigit(data[2]))
    ELSE Err("NumberFail")

\* the place of the first '*' at or after place i, 0 when there is none
FindStar(bytes, i) ==
    LET stars == {k \in i..Len(bytes) : bytes[k] = 42}
    IN  IF stars = {} THEN 0 ELSE CHOOSE k \in stars : \A j \in stars : k <= j

\* the outcome of the framing grammar when it does not match
Unframed(frame) ==
    [frame |-> frame, talker_id |-> <<>>, message_id |-> <<>>, data |-> <<>>, checksum |-> 0]

\* do_parse_nmea_sentence with parse_checksum: '$', two bytes, three bytes,
\* ',', the bytes up to the first '*', '*', two bytes read as hex.  The input
\* is not known to be complete: where bytes are missing the outcome is
\* Incomplete, where a byte is wrong it is Error.  Bytes after the checksum
\* are left unread.
do_parse_nmea_sentence(sentence) ==
    IF Len(sentence) < 1 THEN Unframed("Incomplete")
    ELSE IF sentence[1] # 36 THEN Unframed("Error")
    ELSE IF Len(sentence) < 7 THEN Unframed("Incomplete")
    ELSE IF sentence[7] # 44 THEN Unframed("Error")
    ELSE LET star == FindStar(sentence, 8) IN
         IF star = 0 THEN Unframed("Incomplete")
         ELSE IF Len(sentence) < star + 2 THEN Unframed("Incomplete")
         ELSE LET cs == parse_hex(SubSeq(sentence, star + 1, star + 2)) IN
              IF ~cs.ok THEN Unframed("Error")
              ELSE [frame      |-> "Done",
                    talker_id  |-> SubSeq(sentence, 2, 3),
                    message_id |-> SubSeq(sentence, 4, 6),
                    data       |-> SubSeq(sentence, 8, star - 1),
                    checksum   |-> cs.val]

\* the tokenised sentence of an input: its byte length, what the framing
\* grammar makes of it, and the XOR calc_checksum computes from the parts
Tokenise(sentence) ==
    LET f == do_parse_nmea_sentence(sentence) IN
    [len        |-> Len(sentence),
     frame      |-> f.frame,
     talker_id  |-> f.talker_id,
     message_id |-> f.message_id,
     checksum   |-> f.checksum,
     sum        |-> checksum_chain(f.talker_id, f.message_id, f.data),
     data       |-> f.data]

---------------------------------------------------------------------------
(* Field grammar decoders (src/src/parse.rs) *)

\* NmeaSentence::calc_checksum: the XOR of the bytes between '$' and '*',
\* carried by the tokenised sentence as its field `sum`
calc_checksum(s) == s.sum

\* parse_nmea_sentence that runs the framing grammar before it looks at the
\* length
parse_nmea_sentence_grammar_first(xs) ==
    IF xs.frame = "Incomplete" THEN Err("Incomplete")
    ELSE IF xs.frame # "Done" THEN Err("Nom")
    ELSE IF xs.len > MaxSentenceLen THEN Err("TooLongMessage")
    ELSE Ok(xs)

\* parse_nmea_sentence: the length ceiling, then the framing grammar, whose
\* outcome on the bytes is the field `frame` of the tokenised sentence
parse_nmea_sentence(xs) ==
    IF xs.len > MaxSentenceLen THEN Err("TooLongMessage")
    ELSE IF xs.frame = "Incomplete" THEN Err("Incomplete")
    ELSE IF xs.frame # "Done" THEN Err("Nom")
    ELSE Ok(xs)

\* parse_hms on a time field, written here as the number hhmm (the seconds
\* are left out): the closure refuses an hour of 24 or more and a minute of
\* 60 or more
parse_hms(t) ==
    IF t \div 100 >= 24 \/ t % 100 >= 60 THEN Err("InvalidTime") ELSE Ok(t)

\* opt!(complete!(parse_hms)) >> char!(','): a blank field is None; where
\* parse_hms fails, whatever its error, opt! gives None and consumes nothing,
\* and the comma is then looked for at the first byte of the time, which
\* fails the grammar
TimeField(time) ==
    IF IsNone(time) THEN Ok(None)
    ELSE IF parse_hms(time[1]).ok THEN Ok(time)
    ELSE Err("Nom")

\* parse_gga / do_parse_gga
parse_gga(s) ==
    IF s.message_id # "GGA" THEN Err("InvalidMessageId")
    ELSE IF ~TimeField(s.data.time).ok THEN TimeField(s.data.time)
    ELSE IF s.data.fix_quality \notin {"0", "1", "2", "3", "4", "5", "6", "7", "8"}
    THEN Err("Nom")
    ELSE LET d == s.data IN
         Ok([fix_time       |-> d.time,
             fix_type       |-> Some(FixTypeFromChar(d.fix_quality)),
             latitude       |-> IF IsSome(d.lat_lon) THEN Some(d.lat_lon[1][1]) ELSE None,
             longitude      |-> IF IsSome(d.lat_lon) THEN Some(d.lat_lon[1][2]) ELSE None,
             fix_satellites |-> d.tracked_sats,
             hdop           |-> d.hdop,
             altitude       |-> d.altitude,
             geoid_height   |-> d.geoid_height])

\* parse_rmc / do_parse_rmc
parse_rmc(s) ==
    IF s.message_id # "RMC" THEN Err("InvalidMessageId")
    ELSE IF ~TimeField(s.data.time).ok THEN TimeField(s.data.time)
    ELSE IF s.data.status \notin {"A", "D", "V"} THEN Err("Nom")
    ELSE LET d == s.data IN
         Ok([fix_time          |-> d.time,
             fix_date          |-> d.date,
             status_of_fix     |-> Some(RmcStatusFromChar(d.status)),
             lat               |-> IF IsSome(d.lat_lon) THEN Some(d.lat_lon[1][1]) ELSE None,
             lon               |-> IF IsSome(d.lat_lon) THEN Some(d.lat_lon[1][2]) ELSE None,
             speed_over_ground |-> d.speed,
             true_course       |-> d.course])

\* filter_map(|v| v): the present elements of a sequence of options
RECURSIVE FilterSome(_)
FilterSome(q) ==
    IF q = <<>> THEN <<>>
    ELSE IF IsSome(Head(q)) THEN <<Head(q)[1]>> \o FilterSome(Tail(q))
    ELSE FilterSome(Tail(q))

\* parse_gsa / do_parse_gsa: the all-comma tail, else the full tail whose
\* three dilution values are required
parse_gsa(s) ==
    IF s.message_id # "GSA" THEN Err("InvalidMessageId")
    ELSE IF s.data.mode1 \notin {"M", "A"} \/ s.data.mode2 \notin {"1", "2", "3"}
    THEN Err("Nom")
    ELSE LET d == s.data IN
         IF IsNone(d.dops) THEN
             IF FilterSome(d.prns) = <<>>
             THEN Ok([mode1 |-> d.mode1, mode2 |-> d.mode2, fix_sats_prn |-> <<>>,
                      pdop |-> None, hdop |-> None, vdop |-> None])
             ELSE Err("Nom")
         ELSE Ok([mode1 |-> d.mode1, mode2 |-> d.mode2,
                  fix_sats_prn |-> FilterSome(d.prns),
                  pdop |-> Some(d.dops[1][1]),
                  hdop |-> Some(d.dops[1][2]),
                  vdop |-> Some(d.dops[1][3])])

\* km/h to knots, val / 1.852, on thousandths
KphToKnots(val) == (val * 1000) \div 1852

\* parse_vtg / do_parse_vtg: after the optional 'N' the grammar reads the km/h
\* number at once, with no separating comma; in the standard layout
\* (`,N,<kmh>,K`) the number parser meets the comma and the field is None
parse_vtg(s) ==
    IF s.message_id # "VTG" THEN Err("InvalidMessageId")
    ELSE LET d == s.data
             kph_ground_speed == IF d.layout = "N<kmh>" THEN d.kph ELSE None
         IN  Ok([true_course |-> d.course,
                 speed_over_ground |->
                     IF IsSome(d.knots) THEN d.knots
                     ELSE IF IsSome(kph_ground_speed)
                          THEN Some(KphToKnots(kph_ground_speed[1]))
                          ELSE None])

\* construct_satellite, stamped with the constellation by parse_gsv
StampSat(o, gnss_type) ==
    IF IsSome(o) THEN Some([o[1] EXCEPT !.gnss_type = gnss_type]) ELSE None

\* the largest u16: parse_num::<u16> fails on a number above it
U16Max == 65535

\* parse_gsv that keeps the tag construct_gsv_data puts on the record for a
\* talker it does not know
parse_gsv_keeps_galileo(s) ==
    IF s.message_id # "GSV" THEN Err("InvalidMessageId")
    ELSE LET d == s.data
             gnss_type == IF s.talker_id = "GP" THEN "Gps"
                          ELSE IF s.talker_id = "GL" THEN "Glonass"
                          ELSE "Galileo"
         IN  IF \/ d.number_of_sentences > U16Max
                \/ d.sentence_num > U16Max
                \/ d.sats_in_view > U16Max
             THEN Err("Nom")
             ELSE Ok([gnss_type           |-> gnss_type,
                      number_of_sentences |-> d.number_of_sentences,
                      sentence_num        |-> d.sentence_num,
                      sats_in_view        |-> d.sats_in_view,
                      sats_info           |-> [i \in 1..4 |-> StampSat(d.sats[i], gnss_type)]])

\* parse_gsv / do_parse_gsv: the message id, the talker id, then the
\* payload, whose three leading numbers are read as u16
parse_gsv(s) ==
    IF s.message_id # "GSV" THEN Err("InvalidMessageId")
    ELSE IF s.talker_id \notin {"GP", "GL"} THEN Err("UnknownGnss")
    ELSE IF \/ s.data.number_of_sentences > U16Max
            \/ s.data.sentence_num > U16Max
            \/ s.data.sats_in_view > U16Max
    THEN Err("Nom")
    ELSE LET d == s.data
             gnss_type == IF s.talker_id = "GP" THEN "Gps" ELSE "Glonass"
         IN  Ok([gnss_type           |-> gnss_type,
                 number_of_sentences |-> d.number_of_sentences,
                 sentence_num        |-> d.sentence_num,
                 sats_in_view        |-> d.sats_in_view,
                 sats_info           |-> [i \in 1..4 |-> StampSat(d.sats[i], gnss_type)]])

\* ParseResult
Result(kind, data) == [ok |-> TRUE, kind |-> kind, val |-> data]
Failure(e) == [ok |-> FALSE, kind |-> "Err", val |-> e]
Lift(kind, r) == IF r.ok THEN Result(kind, r.val) ELSE Failure(r.val)

\* the switch of parse on the message id: arms for GGA, RMC, GSA and VTG;
\* every other id, GSV included, is Unsupported
Dispatch(nmea_sentence) ==
    CASE nmea_sentence.message_id = "GGA" -> Lift("GGA", parse_gga(nmea_sentence))
      [] nmea_sentence.message_id = "RMC" -> Lift("RMC", parse_rmc(nmea_sentence))
      [] nmea_sentence.message_id = "GSA" -> Lift("GSA", parse_gsa(nmea_sentence))
      [] nmea_sentence.message_id = "VTG" -> Lift("VTG", parse_vtg(nmea_sentence))
      [] OTHER -> Result("Unsupported", nmea_sentence.message_id)

\* the head of parse: frame, then compare the checksum
CheckedSentence(xs) ==
    LET f == parse_nmea_sentence(xs) IN
    IF ~f.ok THEN f
    ELSE IF f.val.checksum = calc_checksum(f.val) THEN f
    ELSE Err("ChecksumFail")

\* parse that decodes the payload before it compares the checksum
parse_decodes_first(xs) ==
    LET f == parse_nmea_sentence(xs) IN
    IF ~f.ok THEN Failure(f.val)
    ELSE LET r == Dispatch(f.val) IN
         IF ~r.ok THEN r
         ELSE IF f.val.checksum = calc_checksum(f.val) THEN r
         ELSE Failure("ChecksumFail")

\* parse that has no arm for a message id it does not decode
parse_unknown_id_fails(xs) ==
    LET f == CheckedSentence(xs) IN
    IF ~f.ok THEN Failure(f.val)
    ELSE IF f.val.message_id \in {"GGA", "RMC", "GSA", "VTG"} THEN Dispatch(f.val)
    ELSE Failure("InvalidMessageId")

\* parse: frame, compare the checksum, switch on the message id
parse(xs) ==
    LET f == CheckedSentence(xs) IN
    IF ~f.ok THEN Failure(f.val)
    ELSE Dispatch(f.val)

---------------------------------------------------------------------------
(* Fix aggregation engine (src/src/lib.rs) *)

\* Nmea::default()
Default ==
    [fix_time                   |-> None,
     fix_date                   |-> None,
     fix_type                   |-> None,
     latitude                   |-> None,
     longitude                  |-> None,
     altitude                   |-> None,
     speed_over_ground          |-> None,
     true_course                |-> None,
     num_of_fix_satellites      |-> None,
     hdop                       |-> None,
     vdop                       |-> None,
     pdop                       |-> None,
     geoid_height               |-> None,
     satellites                 |-> <<>>,
     fix_satellites_prns        |-> None,
     satellites_scan            |-> [g \in {} |-> <<>>],
     required_sentences_for_nav |-> {},
     last_fix_time              |-> None,
     sentences_for_this_time    |-> {}]

\* Nmea::new
New == [Default EXCEPT !.satellites_scan = [g \in GnssTypes |-> <<>>]]

\* Nmea::create_for_navigation, on a non-empty set
create_for_navigation(required_sentences_for_nav) ==
    [New EXCEPT !.required_sentences_for_nav = required_sentences_for_nav]

\* merge_gga_data that keeps a fix type already stored
merge_gga_data_first_wins(self, gga_data) ==
    [self EXCEPT !.fix_time              = gga_data.fix_time,
                 !.latitude              = gga_data.latitude,
                 !.longitude             = gga_data.longitude,
                 !.fix_type              = IF IsSome(self.fix_type) THEN self.fix_type
                                           ELSE gga_data.fix_type,
                 !.num_of_fix_satellites = gga_data.fix_satellites,
                 !.hdop                  = gga_data.hdop,
                 !.altitude              = gga_data.altitude,
                 !.geoid_height          = gga_data.geoid_height]

merge_gga_data(self, gga_data) ==
    [self EXCEPT !.fix_time              = gga_data.fix_time,
                 !.latitude              = gga_data.latitude,
                 !.longitude             = gga_data.longitude,
                 !.fix_type              = gga_data.fix_type,
                 !.num_of_fix_satellites = gga_data.fix_satellites,
                 !.hdop                  = gga_data.hdop,
                 !.altitude              = gga_data.altitude,
                 !.geoid_height          = gga_data.geoid_height]

merge_rmc_data(self, rmc_data) ==
    [self EXCEPT !.fix_time          = rmc_data.fix_time,
                 !.fix_date          = rmc_data.fix_date,
                 !.fix_type          =
                     IF IsSome(rmc_data.status_of_fix)
                     THEN Some(FixTypeFromRmcStatus(rmc_data.status_of_fix[1]))
                     ELSE None,
                 !.latitude          = rmc_data.lat,
                 !.longitude         = rmc_data.lon,
                 !.speed_over_ground = rmc_data.speed_over_ground,
                 !.true_course       = rmc_data.true_course]

\* merge_gsa_data that also takes the satellite count from the PRN list
merge_gsa_data_count(self, gsa) ==
    [self EXCEPT !.fix_satellites_prns   = Some(gsa.fix_sats_prn),
                 !.num_of_fix_satellites = Some(Len(gsa.fix_sats_prn)),
                 !.hdop                  = gsa.hdop,
                 !.vdop                  = gsa.vdop,
                 !.pdop                  = gsa.pdop]

merge_gsa_data(self, gsa) ==
    [self EXCEPT !.fix_satellites_prns = Some(gsa.fix_sats_prn),
                 !.hdop                = gsa.hdop,
                 !.vdop                = gsa.vdop,
                 !.pdop                = gsa.pdop]

merge_vtg_data(self, vtg) ==
    [self EXCEPT !.speed_over_ground = vtg.speed_over_ground,
                 !.true_course       = vtg.true_course]

\* Vec::resize that grows and never truncates
ResizeGrowOnly(d, n) ==
    [i \in 1..(IF n > Len(d) THEN n ELSE Len(d)) |-> IF i <= Len(d) THEN d[i] ELSE <<>>]

\* Vec::resize that empties the slots it keeps
ResizeClears(d, n) == [i \in 1..n |-> <<>>]

\* Vec::resize(n, vec![])
Resize(d, n) == [i \in 1..n |-> IF i <= Len(d) THEN d[i] ELSE <<>>]

\* Vec::remove(i) in the place of swap_remove: the elements after i shift
\* down by one
ShiftRemove(d, i) == SubSeq(d, 1, i) \o SubSeq(d, i + 2, Len(d))

\* Vec::swap_remove(i), i counted from 0, on i < len: the last element takes
\* the place of the removed one
SwapRemove(d, i) ==
    IF i + 1 = Len(d) THEN SubSeq(d, 1, Len(d) - 1)
    ELSE [SubSeq(d, 1, Len(d) - 1) EXCEPT ![i + 1] = d[Len(d)]]

\* the iteration order of the constellation table
ScanOrder == <<"Galileo", "Gps", "Glonass">>

RECURSIVE Concat(_)
Concat(q) == IF q = <<>> THEN <<>> ELSE Head(q) \o Concat(Tail(q))

\* the rebuilt flattened list: every slot of every constellation
Flatten(scan) ==
    Concat([i \in 1..Len(ScanOrder) |->
               IF ScanOrder[i] \in DOMAIN scan THEN Concat(scan[ScanOrder[i]]) ELSE <<>>])

\* merge_gsv_data: Ok with the new state, Err on an unknown constellation
\* key, Panic when swap_remove is called out of range (sentence_num 0, or
\* above number_of_sentences + 1)
merge_gsv_data(self, data) ==
    IF data.gnss_type \notin DOMAIN self.satellites_scan
    THEN [ok |-> FALSE, val |-> "Invalid GNSS type", st |-> self]
    ELSE LET d0 == Resize(self.satellites_scan[data.gnss_type], data.number_of_sentences)
             d1 == Append(d0, FilterSome(data.sats_info))
         IN  IF data.sentence_num < 1 \/ data.sentence_num - 1 >= Len(d1)
             THEN [ok |-> FALSE, val |-> "Panic",
                   st |-> [self EXCEPT !.satellites_scan[data.gnss_type] = d1]]
             ELSE LET scan == [self.satellites_scan EXCEPT
                                  ![data.gnss_type] = SwapRemove(d1, data.sentence_num - 1)]
                  IN  [ok |-> TRUE, val |-> "",
                       st |-> [self EXCEPT !.satellites_scan = scan,
                                           !.satellites = Flatten(scan)]]

\* new_tick that carries the observed-sentence set over
new_tick_keeps_observed(self) ==
    [Default EXCEPT !.satellites_scan            = self.satellites_scan,
                    !.satellites                 = self.satellites,
                    !.required_sentences_for_nav = self.required_sentences_for_nav,
                    !.last_fix_time              = self.last_fix_time,
                    !.sentences_for_this_time    = self.sentences_for_this_time]

\* new_tick that does not carry the mandatory set over
new_tick_drops_required(self) ==
    [Default EXCEPT !.satellites_scan = self.satellites_scan,
                    !.satellites      = self.satellites,
                    !.last_fix_time   = self.last_fix_time]

\* new_tick that carries the inventory over but not the flattened list
new_tick_drops_satellites(self) ==
    [Default EXCEPT !.satellites_scan            = self.satellites_scan,
                    !.required_sentences_for_nav = self.required_sentences_for_nav,
                    !.last_fix_time              = self.last_fix_time]

\* Nmea::new_tick
new_tick(self) ==
    [Default EXCEPT !.satellites_scan            = self.satellites_scan,
                    !.satellites                 = self.satellites,
                    !.required_sentences_for_nav = self.required_sentences_for_nav,
                    !.last_fix_time              = self.last_fix_time]

\* clear_position_info that leaves the stored tick time
clear_keeps_time(self) == new_tick(self)

\* clear_position_info that starts the satellite inventory afresh
clear_drops_inventory(self) ==
    [New EXCEPT !.required_sentences_for_nav = self.required_sentences_for_nav]

\* Nmea::clear_position_info
clear_position_info(self) == new_tick([self EXCEPT !.last_fix_time = None])

\* the outcome of one call: the returned value and the state left behind
Outcome(r, st) == [ret |-> r, st |-> st]

\* the call did not return: swap_remove panicked and the call unwound
Panic == [ok |-> FALSE, val |-> "panic"]

\* the GSV arm of Nmea::parse
ParseGsv(self, gsv) ==
    LET m == merge_gsv_data(self, gsv) IN
    IF m.ok THEN Outcome(Ok("GSV"), m.st)
    ELSE IF m.val = "Panic" THEN Outcome(Panic, m.st)
    ELSE Outcome(Err(m.val), m.st)

\* the GSV arm of parse_for_fix
ForFixGsv(self, gsv_data) ==
    LET m == merge_gsv_data(self, gsv_data) IN
    IF m.ok THEN Outcome(Ok("Invalid"), m.st)
    ELSE IF m.val = "Panic" THEN Outcome(Panic, m.st)
    ELSE Outcome(Err(m.val), m.st)

\* Nmea::parse that gates a GGA as parse_for_fix does: fix-quality 0 clears
NmeaParseGated(self, s) ==
    LET r == parse(s) IN
    IF ~r.ok THEN Outcome(Err(r.val), self)
    ELSE CASE r.kind = "VTG" -> Outcome(Ok("VTG"), merge_vtg_data(self, r.val))
           [] r.kind = "GGA" ->
                IF r.val.fix_type = Some("Invalid")
                THEN Outcome(Ok("GGA"), clear_position_info(self))
                ELSE Outcome(Ok("GGA"), merge_gga_data(self, r.val))
           [] r.kind = "GSV" -> ParseGsv(self, r.val)
           [] r.kind = "RMC" -> Outcome(Ok("RMC"), merge_rmc_data(self, r.val))
           [] r.kind = "GSA" -> Outcome(Ok("GSA"), merge_gsa_data(self, r.val))
           [] r.kind = "Unsupported" -> Outcome(Err("Unknown or implemented sentence type"), self)

\* Nmea::parse
NmeaParse(self, s) ==
    LET r == parse(s) IN
    IF ~r.ok THEN Outcome(Err(r.val), self)
    ELSE CASE r.kind = "VTG" -> Outcome(Ok("VTG"), merge_vtg_data(self, r.val))
           [] r.kind = "GGA" -> Outcome(Ok("GGA"), merge_gga_data(self, r.val))
           [] r.kind = "GSV" -> ParseGsv(self, r.val)
           [] r.kind = "RMC" -> Outcome(Ok("RMC"), merge_rmc_data(self, r.val))
           [] r.kind = "GSA" -> Outcome(Ok("GSA"), merge_gsa_data(self, r.val))
           [] r.kind = "Unsupported" -> Outcome(Err("Unknown or implemented sentence type"), self)

\* TickFor that never resets: a different time only moves the stored time
TickForNoReset(self, fix_time) ==
    IF IsSome(fix_time) THEN Some([self EXCEPT !.last_fix_time = fix_time]) ELSE None

\* TickFor that takes a blank time for the stored one
TickForBlankIsSame(self, fix_time) ==
    IF IsSome(self.last_fix_time) /\ IsSome(fix_time) THEN
        IF self.last_fix_time # fix_time
        THEN Some([new_tick(self) EXCEPT !.last_fix_time = fix_time])
        ELSE Some(self)
    ELSE IF IsNone(self.last_fix_time) /\ IsSome(fix_time)
    THEN Some([self EXCEPT !.last_fix_time = fix_time])
    ELSE IF IsSome(self.last_fix_time) THEN Some(self)
    ELSE None

\* TickFor that does not store the time of the first timed sentence
TickForNoFirst(self, fix_time) ==
    IF IsSome(self.last_fix_time) /\ IsSome(fix_time) THEN
        IF self.last_fix_time # fix_time
        THEN Some([new_tick(self) EXCEPT !.last_fix_time = fix_time])
        ELSE Some(self)
    ELSE IF IsNone(self.last_fix_time) /\ IsSome(fix_time)
    THEN Some(self)
    ELSE None

\* the tick decision of an RMC or GGA that passed the status gate: the state
\* before the merge, or None when the sentence is fix-invalidating
TickFor(self, fix_time) ==
    IF IsSome(self.last_fix_time) /\ IsSome(fix_time) THEN
        IF self.last_fix_time # fix_time
        THEN Some([new_tick(self) EXCEPT !.last_fix_time = fix_time])
        ELSE Some(self)
    ELSE IF IsNone(self.last_fix_time) /\ IsSome(fix_time)
    THEN Some([self EXCEPT !.last_fix_time = fix_time])
    ELSE None

\* Verdict without the superset test
VerdictUngated(self) ==
    IF IsNone(self.fix_type) \/ self.fix_type = Some("Invalid") THEN Ok("Invalid")
    ELSE Ok(self.fix_type[1])

\* Verdict whose superset test leaves out the mandatory types that are never
\* observed
VerdictKnownOnly(self) ==
    IF IsNone(self.fix_type) \/ self.fix_type = Some("Invalid") THEN Ok("Invalid")
    ELSE IF (self.required_sentences_for_nav \cap {"RMC", "GGA", "VTG"})
                \subseteq self.sentences_for_this_time
    THEN Ok(self.fix_type[1])
    ELSE Ok("Invalid")

\* the closing match of parse_for_fix
Verdict(self) ==
    IF IsNone(self.fix_type) \/ self.fix_type = Some("Invalid") THEN Ok("Invalid")
    ELSE IF self.required_sentences_for_nav \subseteq self.sentences_for_this_time
    THEN Ok(self.fix_type[1])
    ELSE Ok("Invalid")

\* Observe that replaces the set instead of inserting
ObserveOnly(self, t) == [self EXCEPT !.sentences_for_this_time = {t}]

\* the observed-sentence set gains one type
Observe(self, t) ==
    [self EXCEPT !.sentences_for_this_time = self.sentences_for_this_time \cup {t}]

\* the VTG arm without the test of the mandatory set
ForFixVtgAlways(self, vtg) ==
    IF IsNone(vtg.true_course) \/ IsNone(vtg.speed_over_ground)
    THEN Outcome(Ok("Invalid"), clear_position_info(self))
    ELSE LET st == Observe(merge_vtg_data(self, vtg), "VTG")
         IN  Outcome(Verdict(st), st)

\* the VTG arm that resets the tick before merging, as RMC and GGA do
ForFixVtgResets(self, vtg) ==
    IF "VTG" \in self.required_sentences_for_nav THEN
        IF IsNone(vtg.true_course) \/ IsNone(vtg.speed_over_ground)
        THEN Outcome(Ok("Invalid"), clear_position_info(self))
        ELSE LET st == Observe(merge_vtg_data(new_tick(self), vtg), "VTG")
             IN  Outcome(Verdict(st), st)
    ELSE Outcome(Ok("Invalid"), self)

\* the VTG arm of parse_for_fix
ForFixVtg(self, vtg) ==
    IF "VTG" \in self.required_sentences_for_nav THEN
        IF IsNone(vtg.true_course) \/ IsNone(vtg.speed_over_ground)
        THEN Outcome(Ok("Invalid"), clear_position_info(self))
        ELSE LET st == Observe(merge_vtg_data(self, vtg), "VTG")
             IN  Outcome(Verdict(st), st)
    ELSE Outcome(Ok("Invalid"), self)

\* the arms of parse_for_fix and its closing match, on a decoded sentence
ForFixArms(self, r) ==
    CASE r.kind = "GSA" -> Outcome(Ok("Invalid"), merge_gsa_data(self, r.val))
      [] r.kind = "GSV" -> ForFixGsv(self, r.val)
      [] r.kind = "VTG" -> ForFixVtg(self, r.val)
      [] r.kind = "RMC" ->
           IF IsNone(r.val.status_of_fix) \/ r.val.status_of_fix = Some("Invalid")
           THEN Outcome(Ok("Invalid"), clear_position_info(self))
           ELSE LET t == TickFor(self, r.val.fix_time) IN
                IF IsNone(t) THEN Outcome(Ok("Invalid"), clear_position_info(self))
                ELSE LET st == Observe(merge_rmc_data(t[1], r.val), "RMC")
                     IN  Outcome(Verdict(st), st)
      [] r.kind = "GGA" ->
           IF IsNone(r.val.fix_type) \/ r.val.fix_type = Some("Invalid")
           THEN Outcome(Ok("Invalid"), clear_position_info(self))
           ELSE LET t == TickFor(self, r.val.fix_time) IN
                IF IsNone(t) THEN Outcome(Ok("Invalid"), clear_position_info(self))
                ELSE LET st == Observe(merge_gga_data(t[1], r.val), "GGA")
                     IN  Outcome(Verdict(st), st)
      [] r.kind = "Unsupported" -> Outcome(Ok("Invalid"), self)

\* parse_for_fix that takes a sentence the decode rejects for a lost fix
parse_for_fix_clears_on_failure(self, xs) ==
    LET r == parse(xs) IN
    IF ~r.ok THEN Outcome(Err(r.val), clear_position_info(self))
    ELSE ForFixArms(self, r)

\* Nmea::parse_for_fix
parse_for_fix(self, xs) ==
    LET r == parse(xs) IN
    IF ~r.ok THEN Outcome(Err(r.val), self)
    ELSE ForFixArms(self, r)

---------------------------------------------------------------------------
(* Inputs: the sentences a caller submits *)

\* the fix timestamps, as hhmm: 00:01, 00:02, ...
Times == 1..MaxTime

\* time fields parse_hms refuses: 25:00, 24:00, 12:60 and 12:75
BadTimes == {2500, 2400, 1260, 1275}
OptTimes == {None} \cup {Some(t) : t \in Times}

\* a framed sentence with a matching checksum
Sentence(talker_id, message_id, data) ==
    [len |-> 70, frame |-> "Done", talker_id |-> talker_id, message_id |-> message_id,
     checksum |-> 59, sum |-> 59, data |-> data]

RmcFields(time, status, full) ==
    [time    |-> time,
     status  |-> status,
     lat_lon |-> IF full THEN Some(<<49, -123>>) ELSE None,
     speed   |-> IF full THEN Some(500) ELSE None,
     course  |-> IF full THEN Some(54) ELSE None,
     date    |-> IF full THEN Some(<<19, 11, 94>>) ELSE None]

GgaFields(time, fix_quality, full) ==
    [time         |-> time,
     lat_lon      |-> IF full THEN Some(<<53, -6>>) ELSE None,
     fix_quality  |-> fix_quality,
     tracked_sats |-> IF full THEN Some(8) ELSE None,
     hdop         |-> IF full THEN Some(103) ELSE None,
     altitude     |-> IF full THEN Some(61) ELSE None,
     geoid_height |-> IF full THEN Some(55) ELSE None]

\* RMC: every status with every time; blank optional fields with status A
RmcSentences ==
    {Sentence("GP", "RMC", RmcFields(t, st, TRUE)) : t \in OptTimes, st \in {"A", "D", "V"}}
    \cup {Sentence("GP", "RMC", RmcFields(t, "A", FALSE)) : t \in OptTimes}

\* GGA: fix-quality 0, 1 and 5 with every time; blank optional fields with
\* fix-quality 1
GgaSentences ==
    {Sentence("GP", "GGA", GgaFields(t, q, TRUE)) : t \in OptTimes, q \in {"0", "1", "5"}}
    \cup {Sentence("GP", "GGA", GgaFields(t, "1", FALSE)) : t \in OptTimes}

\* GSA: the all-comma tail and the full tail
GsaSentences ==
    {Sentence("GP", "GSA", [mode1 |-> "A", mode2 |-> "3", prns |-> <<None, None>>,
                            dops |-> None]),
     Sentence("GP", "GSA", [mode1 |-> "A", mode2 |-> "3",
                            prns |-> <<Some(16), None, Some(18)>>,
                            dops |-> Some(<<360, 210, 220>>)])}

\* VTG: course and knots; no course; no knots, km/h in the standard layout;
\* no knots, km/h right after the 'N'
VtgSentences ==
    {Sentence("GP", "VTG", [course |-> k[1], knots |-> k[2], kph |-> k[3], layout |-> k[4]]) :
        k \in {<<Some(72), Some(480), Some(880), ",N,<kmh>">>,
               <<None, Some(480), Some(880), ",N,<kmh>">>,
               <<Some(72), None, Some(1852), ",N,<kmh>">>,
               <<Some(72), None, Some(1852), "N<kmh>">>}}

Sat(prn) == [gnss_type |-> "Galileo", prn |-> prn, elevation |-> Some(40),
             azimuth |-> Some(83), snr |-> None]

GsvSentences ==
    {Sentence(talker_id, "GSV", [number_of_sentences |-> 1, sentence_num |-> 1,
                                 sats_in_view |-> 1,
                                 sats |-> <<Some(Sat(10)), None, None, None>>]) :
        talker_id \in {"GP", "GL"}}

\* the satellites of sentence i of a scan: two for an odd i, one for an
\* even i
ScanSats(i) ==
    <<Some(Sat(10 * i + 1)),
      IF i % 2 = 1 THEN Some(Sat(10 * i + 2)) ELSE None,
      None, None>>

\* sentence i of a scan of n sentences
ScanSentence(talker_id, n, i) ==
    Sentence(talker_id, "GSV", [number_of_sentences |-> n, sentence_num |-> i,
                                sats_in_view |-> 5, sats |-> ScanSats(i)])

\* sentence i of a later scan of n sentences: another satellite
RescanSentence(talker_id, n, i) ==
    Sentence(talker_id, "GSV", [number_of_sentences |-> n, sentence_num |-> i,
                                sats_in_view |-> 5,
                                sats |-> <<Some(Sat(10 * i + 5)), None, None, None>>])

\* GSV sentences of scans: GPS scans of every announced size, with every
\* index from 0 to one past the size and beyond; one GLONASS scan of two;
\* the first sentence of a later GPS scan of one and of the largest size
GsvScanSentences ==
    {ScanSentence("GP", n, i) : n \in 0..MaxScan, i \in 0..(MaxScan + 1)}
    \cup {ScanSentence("GL", 2, i) : i \in 1..2}
    \cup {RescanSentence("GP", n, 1) : n \in {1, MaxScan}}

\* the sentences that drive the tick while scans are merged: an RMC at two
\* times, and the fix-invalidating ones: an RMC with status V, a GGA with
\* fix-quality 0, an RMC without time and a VTG without course
TickSentences ==
    {Sentence("GP", "RMC", RmcFields(Some(t), "A", TRUE)) : t \in 1..2}
    \cup {Sentence("GP", "RMC", RmcFields(Some(1), "V", TRUE)),
          Sentence("GP", "GGA", GgaFields(Some(1), "0", TRUE)),
          Sentence("GP", "RMC", RmcFields(None, "A", TRUE)),
          Sentence("GP", "VTG", [course |-> None, knots |-> Some(480), kph |-> Some(880),
                                 layout |-> ",N,<kmh>"])}

OtherSentences == {Sentence("GP", "GLL", <<>>)}

\* sentences the decode rejects: a checksum mismatch on an RMC and on a GGA
\* with fix-quality 0, a status letter outside the grammar, an input of more
\* than 102 bytes, one that breaks the framing grammar and one that is cut
\* off
BadSentences ==
    {[Sentence("GP", "RMC", RmcFields(Some(1), "A", TRUE)) EXCEPT !.checksum = 58],
     [Sentence("GP", "GGA", GgaFields(Some(1), "0", TRUE)) EXCEPT !.checksum = 58],
     Sentence("GP", "RMC", RmcFields(Some(1), "X", TRUE)),
     [Sentence("GP", "RMC", RmcFields(Some(1), "A", TRUE)) EXCEPT !.len = 103],
     [Sentence("GP", "GGA", GgaFields(Some(1), "1", TRUE)) EXCEPT !.frame = "Error"],
     [Sentence("GP", "GGA", GgaFields(Some(1), "1", TRUE)) EXCEPT !.frame = "Incomplete"]}

Sentences ==
    RmcSentences \cup GgaSentences \cup GsaSentences \cup VtgSentences
    \cup GsvSentences \cup OtherSentences \cup BadSentences

\* the sentences given to an engine driven by both parse and parse_for_fix:
\* a GGA with fix-quality 0, one with fix-quality 1 and one with fix-quality
\* 1 and blank optional fields, RMC with status A at two times and one with
\* status V, and one sentence of every other kind
ParseSentences ==
    {Sentence("GP", "GGA", GgaFields(Some(1), "0", TRUE)),
     Sentence("GP", "GGA", GgaFields(Some(1), "1", TRUE)),
     Sentence("GP", "GGA", GgaFields(Some(1), "1", FALSE)),
     Sentence("GP", "RMC", RmcFields(Some(1), "A", TRUE)),
     Sentence("GP", "RMC", RmcFields(Some(2), "A", TRUE)),
     Sentence("GP", "RMC", RmcFields(Some(1), "V", TRUE)),
     Sentence("GP", "GSA", [mode1 |-> "A", mode2 |-> "3",
                            prns |-> <<Some(16), None, Some(18)>>,
                            dops |-> Some(<<360, 210, 220>>)]),
     Sentence("GP", "VTG", [course |-> Some(72), knots |-> Some(480), kph |-> Some(880),
                            layout |-> ",N,<kmh>"])}
    \cup GsvSentences \cup OtherSentences \cup BadSentences

\* GGA and RMC sentences of correct grammar but for the time field, whose
\* hour or minute is out of range
BadTimeSentences ==
    {Sentence("GP", "GGA", GgaFields(Some(t), "1", TRUE)) : t \in BadTimes}
    \cup {Sentence("GP", "RMC", RmcFields(Some(t), "A", TRUE)) : t \in BadTimes}

\* a VTG sentence in the standard layout with both speed fields blank
VtgBlankSentences ==
    {Sentence("GP", "VTG", [course |-> Some(72), knots |-> None, kph |-> None,
                            layout |-> ",N,<kmh>"])}

\* the talker ids of GSV sentences: GPS, GLONASS, Galileo, mixed, Beidou
Talkers == {"GP", "GL", "GA", "GN", "BD"}

\* sentences given to the GSV decoder: a GSV sentence of every talker, with a
\* payload of the grammar and with one whose first number does not fit u16,
\* and a GGA sentence with a talker the GSV decoder does not know
GsvDecodeSentences ==
    {ScanSentence(talker_id, n, 1) : talker_id \in Talkers, n \in {1, U16Max + 1}}
    \cup {Sentence("GA", "GGA", GgaFields(Some(1), "1", TRUE))}

\* the sentences given to the stateless decode: every sentence above, the
\* same with a checksum that does not match, and sentences of message ids
\* outside the decoded ones, with an empty payload and with a payload of no
\* grammar
DecodeSentences ==
    LET other == {Sentence("GP", id, data) :
                     id \in {"GLL", "ZDA", "TXT"}, data \in {<<>>, <<"#", "#">>}}
    IN  Sentences \cup other
        \cup {[s EXCEPT !.checksum = 58] : s \in Sentences \cup other}
        \cup GsvDecodeSentences \cup BadTimeSentences \cup VtgBlankSentences

\* one hex digit as a sender writes it, in upper or lower case
HexChar(v, lower) ==
    IF v < 10 THEN 48 + v ELSE IF lower THEN 87 + v ELSE 55 + v

\* the bytes of a sentence with the checksum digits cs
Framed(talker_id, message_id, data, cs, lower) ==
    <<36>> \o talker_id \o message_id \o <<44>> \o data \o <<42>>
    \o <<HexChar(cs \div 16, lower), HexChar(cs % 16, lower)>>

\* the bytes of a sentence as a sender frames it: the checksum is the XOR
\* of what stands between '$' and '*'
Sent(talker_id, message_id, data, lower) ==
    Framed(talker_id, message_id, data,
           checksum(talker_id \o message_id \o <<44>> \o data), lower)

\* n bytes '1'
Pad(n) == [i \in 1..n |-> 49]

\* "GP"
TalkerGP == <<71, 80>>

\* "GLL" and "ZDA"
ByteIds == {<<71, 76, 76>>, <<90, 68, 65>>}

\* payloads: empty, "1", "A,1", and a '.' before two hex digits
BytePayloads ==
    {<<>>, <<49>>, <<65, 44, 49>>}
    \cup {<<46, h1, h2>> : h1 \in {52, 55}, h2 \in {53, 67, 99}}

\* sentences as sent, with the checksum digits in either case
SentInputs ==
    {Sent(TalkerGP, id, d, lower) : id \in ByteIds, d \in BytePayloads, lower \in BOOLEAN}

\* sentences whose checksum digits are one bit off
MismatchInputs ==
    {Framed(TalkerGP, id, d, Xor(checksum(TalkerGP \o id \o <<44>> \o d), 1), FALSE) :
        id \in ByteIds, d \in BytePayloads}

\* inputs around the length ceiling: sentences as sent of 101, 102 and 103
\* bytes; a sentence as sent of 11 bytes followed by bytes up to 102 and to
\* 103; 102 and 103 bytes of no grammar
LongInputs ==
    {Sent(TalkerGP, <<71, 76, 76>>, Pad(n), FALSE) : n \in 91..93}
    \cup {Sent(TalkerGP, <<71, 76, 76>>, <<49>>, FALSE) \o Pad(n) : n \in 91..92}
    \cup {Pad(n) : n \in 102..103}

\* inputs the framing grammar rejects: nothing; "$GP"; "$GPGLL,1" with no
\* '*'; "$GPGLL,1*4"; "GPGLL,1*4D"; "$GPGLL;1*4D"; "$GPGLL,1*ZZ"; and
\* "$GPGLL,1*+F", which frames
BrokenInputs ==
    {<<>>,
     <<36, 71, 80>>,
     <<36, 71, 80, 71, 76, 76, 44, 49>>,
     <<36, 71, 80, 71, 76, 76, 44, 49, 42, 52>>,
     <<71, 80, 71, 76, 76, 44, 49, 42, 52, 68>>,
     <<36, 71, 80, 71, 76, 76, 59, 49, 42, 52, 68>>,
     <<36, 71, 80, 71, 76, 76, 44, 49, 42, 90, 90>>,
     <<36, 71, 80, 71, 76, 76, 44, 49, 42, 43, 70>>}

ByteInputs == SentInputs \cup MismatchInputs \cup LongInputs \cup BrokenInputs

\* the mandatory sets engines are created with
MandatorySets == {{"RMC", "GGA"}, {"RMC", "VTG"}, {"GGA", "GSV"}}

---------------------------------------------------------------------------
(* History of the calls *)

\* a valid-status RMC or a valid-quality GGA
ValidFix(xs) ==
    LET r == parse(xs) IN
    /\ r.ok
    /\ \/ r.kind = "RMC" /\ r.val.status_of_fix \in {Some("Autonomous"), Some("Differential")}
       \/ r.kind = "GGA" /\ IsSome(r.val.fix_type) /\ r.val.fix_type # Some("Invalid")

\* an RMC with status V or a GGA with fix-quality 0
InvalidFix(xs) ==
    LET r == parse(xs) IN
    /\ r.ok
    /\ \/ r.kind = "RMC" /\ r.val.status_of_fix = Some("Invalid")
       \/ r.kind = "GGA" /\ r.val.fix_type = Some("Invalid")

\* a valid-status RMC or a valid-quality GGA that carries a time
TimedFix(xs) == ValidFix(xs) /\ IsSome(xs.data.time)

\* a decodable GSA, GSV or VTG sentence
Untimed(xs) ==
    /\ parse(xs).ok
    /\ xs.message_id \in {"GSA", "GSV", "VTG"}

\* how the sentence stands to the tick of the state it is submitted in
TickCase(self, xs) ==
    IF ~parse(xs).ok THEN "failure"
    ELSE IF InvalidFix(xs) THEN "invalid"
    ELSE IF ValidFix(xs) THEN
        IF IsNone(xs.data.time)
        THEN (IF IsSome(self.last_fix_time) THEN "time_lost" ELSE "no_time")
        ELSE IF IsNone(self.last_fix_time) THEN "first"
        ELSE IF self.last_fix_time = xs.data.time THEN "same"
        ELSE "reset"
    ELSE "untimed"

\* The history of the inputs, kept apart from the engine's own bookkeeping.
\* hist.tick: TickCase of the last call.  hist.time and hist.seen: the time
\* and the sentence types of the current run of timed fix sentences given
\* to parse_for_fix; a timed fix sentence with another time starts a new
\* run, an invalid or time-less RMC/GGA ends it, any other sentence leaves
\* it as it is.  hist.prev: hist.seen before the last call.
Track(h, self, xs) ==
    IF TimedFix(xs) THEN
        [tick |-> TickCase(self, xs),
         time |-> xs.data.time,
         seen |-> IF h.time = xs.data.time THEN h.seen \cup {xs.message_id}
                  ELSE {xs.message_id},
         prev |-> h.seen]
    ELSE IF InvalidFix(xs) \/ ValidFix(xs)
    THEN [tick |-> TickCase(self, xs), time |-> None, seen |-> {}, prev |-> h.seen]
    ELSE [h EXCEPT !.tick = TickCase(self, xs), !.prev = h.seen]

NoHistory(tick) == [tick |-> tick, time |-> None, seen |-> {}, prev |-> {}]

---------------------------------------------------------------------------
(* The state machine *)

Init ==
    /\ \E m \in MandatorySets : nmea = create_for_navigation(m)
    /\ inp = Sentence("", "", <<>>)
    /\ op = "new"
    /\ ret = Ok("")
    /\ hist = NoHistory("")

\* one call of Nmea::parse_for_fix
ParseForFix ==
    \E xs \in Sentences :
        LET o == parse_for_fix(nmea, xs) IN
        /\ nmea' = o.st
        /\ inp' = xs
        /\ op' = "parse_for_fix"
        /\ ret' = o.ret
        /\ hist' = Track(hist, nmea, xs)

\* one call of Nmea::parse_for_fix, in an engine that is also given to
\* Nmea::parse
ParseForFixAny ==
    \E xs \in ParseSentences :
        LET o == parse_for_fix(nmea, xs) IN
        /\ nmea' = o.st
        /\ inp' = xs
        /\ op' = "parse_for_fix"
        /\ ret' = o.ret
        /\ hist' = Track(hist, nmea, xs)

\* one call of Nmea::parse
Parse ==
    \E s \in ParseSentences :
        LET o == NmeaParse(nmea, s) IN
        /\ nmea' = o.st
        /\ inp' = s
        /\ op' = "parse"
        /\ ret' = o.ret
        /\ hist' = NoHistory(TickCase(nmea, s))

Next == ParseForFixAny \/ Parse

Spec == Init /\ [][Next]_vars

\* an engine driven by parse_for_fix alone
NextFix == ParseForFix

SpecFix == Init /\ [][NextFix]_vars

---------------------------------------------------------------------------
(* The stateless decode: framing and checksum on the bytes of an input,     *)
(* parse on a tokenised sentence                                            *)

\* no bit of the input has been changed
NoFlip == [pos |-> 0, bit |-> 0]

\* 2^k
RECURSIVE Pow2(_)
Pow2(k) == IF k = 0 THEN 1 ELSE 2 * Pow2(k - 1)

InitDecode ==
    /\ nmea = New
    /\ ret = Ok("")
    /\ hist = NoFlip
    /\ \/ op = "bytes" /\ inp \in ByteInputs
       \/ op = "sentence" /\ inp \in DecodeSentences

\* parse_nmea_sentence on the bytes
Frame ==
    /\ op = "bytes"
    /\ op' = "framed"
    /\ ret' = parse_nmea_sentence(Tokenise(inp))
    /\ UNCHANGED <<nmea, inp, hist>>

\* the head of parse on the bytes: the frame, then the checksum comparison
Check ==
    /\ op = "framed"
    /\ op' = "checked"
    /\ ret' = CheckedSentence(Tokenise(inp))
    /\ UNCHANGED <<nmea, inp, hist>>

\* one bit of one byte between '$' and '*' of a sentence that validated is
\* changed and the sentence is checked again
Flip ==
    /\ op = "checked"
    /\ ret.ok
    /\ \E pos \in 2..(FindStar(inp, 8) - 1), bit \in 0..7 :
          /\ inp' = [inp EXCEPT ![pos] = Xor(inp[pos], Pow2(bit))]
          /\ hist' = [pos |-> pos, bit |-> bit]
    /\ op' = "flipped"
    /\ ret' = CheckedSentence(Tokenise(inp'))
    /\ UNCHANGED nmea

\* parse on a tokenised sentence
Decode ==
    /\ op = "sentence"
    /\ op' = "decoded"
    /\ ret' = parse(inp)
    /\ UNCHANGED <<nmea, inp, hist>>

\* parse_gsv on a tokenised sentence
DecodeGsv ==
    /\ op = "sentence"
    /\ op' = "gsv"
    /\ ret' = parse_gsv(inp)
    /\ UNCHANGED <<nmea, inp, hist>>

\* the GSV arm of Nmea::parse on the record parse_gsv returned
MergeGsv ==
    /\ op = "gsv"
    /\ ret.ok
    /\ LET o == ParseGsv(nmea, ret.val) IN
       /\ nmea' = o.st
       /\ ret' = o.ret
    /\ op' = "merged"
    /\ UNCHANGED <<inp, hist>>

NextDecode == Frame \/ Check \/ Flip \/ Decode \/ DecodeGsv \/ MergeGsv

SpecDecode == InitDecode /\ [][NextDecode]_vars

---------------------------------------------------------------------------
(* The satellite inventory: the GSV arms of lib.rs, given the record that   *)
(* parse_gsv decodes from a GSV sentence                                    *)

\* The arrival history of GSV sentences merged into a fresh engine.
\* scan: the talker and announced size of the first sentence merged; order:
\* the indices merged so far; mixed: some sentence merged was of another
\* scan, repeated an index or had an index outside 1..size.
\* replaced: the last GSV sentence merged went to a slot that held other
\* satellites.  dropped: the constellation of the last GSV sentence merged
\* held satellites in slots above the size the sentence announces.
NoArrivals ==
    [scan |-> None, order |-> <<>>, mixed |-> FALSE, replaced |-> FALSE, dropped |-> FALSE]

Arrive(h, xs) ==
    LET d == xs.data
        key == <<xs.talker_id, d.number_of_sentences>>
        inScan == /\ d.sentence_num \in 1..d.number_of_sentences
                  /\ xs = ScanSentence(xs.talker_id, d.number_of_sentences, d.sentence_num)
    IN  IF h.mixed THEN h
        ELSE IF IsNone(h.scan) /\ inScan
        THEN [h EXCEPT !.scan = Some(key), !.order = <<d.sentence_num>>]
        ELSE IF /\ h.scan = Some(key)
                /\ inScan
                /\ \A k \in 1..Len(h.order) : h.order[k] # d.sentence_num
        THEN [h EXCEPT !.order = Append(h.order, d.sentence_num)]
        ELSE [h EXCEPT !.scan = None, !.order = <<>>, !.mixed = TRUE]

\* the slot the sentence goes to holds satellites, and not the sentence's
Replaces(self, xs) ==
    LET gsv == parse_gsv(xs).val
        d == self.satellites_scan[gsv.gnss_type]
    IN  /\ gsv.sentence_num \in 1..gsv.number_of_sentences
        /\ gsv.sentence_num <= Len(d)
        /\ d[gsv.sentence_num] # <<>>
        /\ d[gsv.sentence_num] # FilterSome(gsv.sats_info)

\* the constellation of the sentence holds satellites in slots above the
\* size the sentence announces
Drops(self, xs) ==
    LET gsv == parse_gsv(xs).val
        d == self.satellites_scan[gsv.gnss_type]
    IN  \E j \in 1..Len(d) : j > gsv.number_of_sentences /\ d[j] # <<>>

\* the last call returned a value
Returned == ret # Panic

InitGsv ==
    /\ nmea \in {New, create_for_navigation({"RMC", "VTG"})}
    /\ inp = Sentence("", "", <<>>)
    /\ op = "new"
    /\ ret = Ok("")
    /\ hist = NoArrivals

\* Nmea::parse_for_fix handed the GSV record of a sentence
GsvForFix ==
    /\ Returned
    /\ \E xs \in GsvScanSentences :
          LET o == ForFixGsv(nmea, parse_gsv(xs).val) IN
          /\ parse_gsv(xs).ok
          /\ nmea' = o.st
          /\ inp' = xs
          /\ op' = "parse_for_fix"
          /\ ret' = o.ret
          /\ hist' = [Arrive(hist, xs) EXCEPT !.replaced = Replaces(nmea, xs),
                                            !.dropped = Drops(nmea, xs)]

\* Nmea::parse handed the GSV record of a sentence
GsvParse ==
    /\ Returned
    /\ \E xs \in GsvScanSentences :
          LET o == ParseGsv(nmea, parse_gsv(xs).val) IN
          /\ parse_gsv(xs).ok
          /\ nmea' = o.st
          /\ inp' = xs
          /\ op' = "parse"
          /\ ret' = o.ret
          /\ hist' = [Arrive(hist, xs) EXCEPT !.replaced = Replaces(nmea, xs),
                                            !.dropped = Drops(nmea, xs)]

\* Nmea::parse_for_fix on an RMC, GGA or VTG sentence: tick resets and clears
\* between the GSV sentences
GsvTick ==
    /\ Returned
    /\ \E xs \in TickSentences :
          LET o == parse_for_fix(nmea, xs) IN
          /\ nmea' = o.st
          /\ inp' = xs
          /\ op' = "parse_for_fix"
          /\ ret' = o.ret
          /\ hist' = hist

NextGsv == GsvForFix \/ GsvParse \/ GsvTick

SpecGsv == InitGsv /\ [][NextGsv]_vars

---------------------------------------------------------------------------
(* Properties of the tick-gated fix decision *)

RmcGga == {"RMC", "GGA"}

\* the last call was parse_for_fix and returned a fix type other than Invalid
ValidReturned == op = "parse_for_fix" /\ ret.ok /\ ret.val # "Invalid"

\* C1: parse_for_fix returns a fix type other than Invalid only if, after
\* the call's merge, every mandatory sentence type is in the observed set and
\* the stored fix type is set and not Invalid; otherwise a successful call
\* returns Invalid.
C1_ValidOnlyWhenComplete ==
    op = "parse_for_fix" /\ ret.ok =>
        /\ ret.val \in FixTypes
        /\ ret.val # "Invalid" =>
              /\ nmea.required_sentences_for_nav \subseteq nmea.sentences_for_this_time
              /\ IsSome(nmea.fix_type)
              /\ nmea.fix_type # Some("Invalid")

\* a valid fix was returned, the mandatory set observed
C1_Witness ==
    /\ ValidReturned
    /\ nmea.required_sentences_for_nav \subseteq nmea.sentences_for_this_time
    /\ nmea.sentences_for_this_time # {}

\* C2 as stated: with mandatory set {RMC, GGA}, only the sentence whose merge
\* completes the set within the tick gets a fix type other than Invalid; a
\* sentence after completion, a repeated RMC or GGA with the same time
\* included, gets Invalid.
C2_OnlyCompletingSentence ==
    nmea.required_sentences_for_nav = RmcGga /\ ValidReturned =>
        hist.seen = RmcGga /\ hist.prev # RmcGga

\* C2 amended: with mandatory set {RMC, GGA}, a fix type other than Invalid
\* is returned exactly for a valid RMC or GGA carrying a time after which
\* both types have been submitted with that time: the sentence that completes
\* the set and every valid RMC or GGA with the same time repeated after it.
\* Every other sentence of the tick returns Invalid.
C2_ValidIffSetCovered ==
    nmea.required_sentences_for_nav = RmcGga /\ op = "parse_for_fix" /\ ret.ok =>
        (ret.val # "Invalid" <=> TimedFix(inp) /\ hist.seen = RmcGga)

\* a repeated sentence after completion got a valid fix
C2_Witness ==
    /\ nmea.required_sentences_for_nav = RmcGga
    /\ ValidReturned
    /\ hist.prev = RmcGga
    /\ hist.seen = RmcGga

\* C3: with mandatory set {RMC, GGA}, when a valid RMC and a valid GGA with
\* the same time are submitted in either order, with GSA, GSV or VTG
\* sentences between them, the second of the two returns a fix type other
\* than Invalid.
C3_SecondOfPairValid ==
    /\ nmea.required_sentences_for_nav = RmcGga
    /\ op = "parse_for_fix"
    /\ TimedFix(inp)
    /\ hist.seen = RmcGga
    /\ hist.prev = RmcGga \ {inp.message_id}
    => ret.ok /\ ret.val # "Invalid"

\* the GGA came first, the RMC second, and the RMC got the fix
C3_Witness ==
    /\ nmea.required_sentences_for_nav = RmcGga
    /\ op = "parse_for_fix"
    /\ inp.message_id = "RMC"
    /\ hist.prev = {"GGA"}
    /\ hist.seen = RmcGga
    /\ ValidReturned

\* the fix fields, the stored tick time and the observed set are all unset
Cleared(st) ==
    /\ IsNone(st.fix_time) /\ IsNone(st.fix_date) /\ IsNone(st.fix_type)
    /\ IsNone(st.latitude) /\ IsNone(st.longitude) /\ IsNone(st.altitude)
    /\ IsNone(st.speed_over_ground) /\ IsNone(st.true_course)
    /\ IsNone(st.num_of_fix_satellites)
    /\ IsNone(st.hdop) /\ IsNone(st.vdop) /\ IsNone(st.pdop)
    /\ IsNone(st.geoid_height)
    /\ IsNone(st.last_fix_time)
    /\ st.sentences_for_this_time = {}

\* C4: a valid RMC or GGA whose time differs from the stored tick time
\* resets the tick before merging: afterwards the observed set is exactly
\* that sentence type, the stored tick time is the sentence's time, and the
\* fix fields the sentence does not carry are unset; with mandatory set
\* {RMC, GGA} the call returns Invalid.
C4_ResetBeforeMerge ==
    op = "parse_for_fix" /\ hist.tick = "reset" =>
        /\ nmea.sentences_for_this_time = {inp.message_id}
        /\ nmea.last_fix_time = inp.data.time
        /\ nmea.fix_time = inp.data.time
        /\ IsNone(nmea.fix_satellites_prns) /\ IsNone(nmea.vdop) /\ IsNone(nmea.pdop)
        /\ inp.message_id = "RMC" =>
              /\ IsNone(nmea.altitude) /\ IsNone(nmea.num_of_fix_satellites)
              /\ IsNone(nmea.geoid_height) /\ IsNone(nmea.hdop)
        /\ inp.message_id = "GGA" =>
              /\ IsNone(nmea.fix_date) /\ IsNone(nmea.speed_over_ground)
              /\ IsNone(nmea.true_course)
              /\ nmea.hdop = inp.data.hdop
        /\ nmea.required_sentences_for_nav = RmcGga => ret = Ok("Invalid")

\* an RMC reset a tick in which both RMC and GGA had been submitted
C4_Witness ==
    /\ op = "parse_for_fix"
    /\ hist.tick = "reset"
    /\ inp.message_id = "RMC"
    /\ hist.prev = RmcGga
    /\ nmea.sentences_for_this_time = {"RMC"}

\* C5: a new-tick reset leaves the satellite inventory, the flattened
\* satellite list and the mandatory set as they were before the call.
C5_ResetKeepsInventory ==
    [][op' = "parse_for_fix" /\ hist'.tick = "reset" =>
          /\ nmea'.satellites_scan = nmea.satellites_scan
          /\ nmea'.satellites = nmea.satellites
          /\ nmea'.required_sentences_for_nav = nmea.required_sentences_for_nav]_vars

\* a GGA reset the tick of an engine that has its mandatory set
C5_Witness ==
    /\ op = "parse_for_fix"
    /\ hist.tick = "reset"
    /\ inp.message_id = "GGA"
    /\ nmea.required_sentences_for_nav # {}
    /\ DOMAIN nmea.satellites_scan = GnssTypes

\* C6: an RMC with status V or a GGA with fix-quality 0 returns Invalid
\* and clears the session: every fix field, the stored tick time and the
\* observed set are unset afterwards.
C6_InvalidClears ==
    op = "parse_for_fix" /\ hist.tick = "invalid" =>
        ret = Ok("Invalid") /\ Cleared(nmea)

\* a GGA with fix-quality 0 arrived with a time, in a run with sentences seen
C6_Witness ==
    /\ op = "parse_for_fix"
    /\ hist.tick = "invalid"
    /\ inp.message_id = "GGA"
    /\ IsSome(inp.data.time)
    /\ hist.prev # {}

\* C7: a valid RMC or GGA with a blank time, received while a tick time is
\* stored, returns Invalid, merges nothing and clears the fix fields, the
\* stored tick time and the observed set.
C7_BlankTimeClears ==
    op = "parse_for_fix" /\ hist.tick = "time_lost" =>
        ret = Ok("Invalid") /\ Cleared(nmea)

\* a valid RMC with a position but no time arrived in a running tick
C7_Witness ==
    /\ op = "parse_for_fix"
    /\ hist.tick = "time_lost"
    /\ inp.message_id = "RMC"
    /\ IsSome(inp.data.lat_lon)
    /\ hist.prev # {}

\* the sentence frames and its checksum matches
WellFormed(xs) ==
    /\ parse_nmea_sentence(xs).ok
    /\ xs.checksum = calc_checksum(xs)

\* the state holds what the GSA sentence carries
GsaMerged(st, xs) ==
    LET gsa == parse_gsa(xs).val IN
    /\ st.fix_satellites_prns = Some(gsa.fix_sats_prn)
    /\ st.hdop = gsa.hdop /\ st.vdop = gsa.vdop /\ st.pdop = gsa.pdop

\* the inventory slot of the GSV sentence holds its satellites, and the
\* flattened list is rebuilt from the inventory
GsvMerged(st, xs) ==
    LET gsv == parse_gsv(xs).val
        d == st.satellites_scan[gsv.gnss_type]
    IN  /\ gsv.sentence_num \in 1..Len(d)
        /\ d[gsv.sentence_num] = FilterSome(gsv.sats_info)
        /\ st.satellites = Flatten(st.satellites_scan)

\* C8: parse_for_fix on a well-formed GSA or GSV sentence that its decoder
\* accepts merges it (GSA: PRN list and dilution values; GSV: satellite
\* inventory) and returns Invalid, in every state.
C8_GsaGsvAlwaysMerge ==
    op = "parse_for_fix" /\ WellFormed(inp) =>
        /\ inp.message_id = "GSA" /\ parse_gsa(inp).ok =>
              ret = Ok("Invalid") /\ GsaMerged(nmea, inp)
        /\ inp.message_id = "GSV" /\ parse_gsv(inp).ok =>
              ret = Ok("Invalid") /\ GsvMerged(nmea, inp)

\* the GSA half of C8 alone
GsaAlwaysMerges ==
    op = "parse_for_fix" /\ WellFormed(inp) /\ inp.message_id = "GSA" /\ parse_gsa(inp).ok =>
        ret = Ok("Invalid") /\ GsaMerged(nmea, inp)

\* what RMC and GGA accumulate, HDOP aside
Accumulated(st) ==
    <<st.fix_time, st.fix_date, st.fix_type, st.latitude, st.longitude, st.altitude,
      st.speed_over_ground, st.true_course, st.num_of_fix_satellites, st.geoid_height,
      st.last_fix_time, st.sentences_for_this_time>>

\* the call was parse_for_fix on a GSA or GSV sentence that decoded
GsaOrGsvCall(o, xs) ==
    /\ o = "parse_for_fix"
    /\ xs.message_id \in {"GSA", "GSV"}
    /\ parse(xs).ok

\* C9 as stated: parse_for_fix on a GSA or GSV sentence leaves fix time,
\* date, fix type, latitude, longitude, altitude, speed, course, satellite
\* count, HDOP, geoid height, stored tick time and observed set as they were.
C9_GsaGsvTouchNothing ==
    [][GsaOrGsvCall(op', inp') =>
          /\ Accumulated(nmea') = Accumulated(nmea)
          /\ nmea'.hdop = nmea.hdop]_vars

\* C9 amended: parse_for_fix on a GSA or GSV sentence leaves fix time, date,
\* fix type, latitude, longitude, altitude, speed, course, satellite count,
\* geoid height, stored tick time and observed set as they were; HDOP is
\* left alone by GSV and is overwritten by GSA with the sentence's own HDOP
\* field, unset when that field is blank.
C9_GsaGsvTouchOnlyHdop ==
    [][GsaOrGsvCall(op', inp') =>
          /\ Accumulated(nmea') = Accumulated(nmea)
          /\ inp'.message_id = "GSV" => nmea'.hdop = nmea.hdop
          /\ inp'.message_id = "GSA" => nmea'.hdop = parse_gsa(inp').val.hdop]_vars

\* a GSA arrived after a GGA had given altitude and HDOP: the altitude is
\* there, the HDOP is no longer the GGA's
C9_Witness ==
    /\ op = "parse_for_fix"
    /\ inp.message_id = "GSA"
    /\ "GGA" \in nmea.sentences_for_this_time
    /\ nmea.altitude = Some(61)
    /\ nmea.hdop # Some(103)

\* C10: when VTG is not mandatory, parse_for_fix on a VTG sentence returns
\* Invalid and changes nothing in the session state.
C10_OptionalVtgIgnored ==
    [][/\ op' = "parse_for_fix"
       /\ inp'.message_id = "VTG"
       /\ parse(inp').ok
       /\ "VTG" \notin nmea.required_sentences_for_nav
       => ret' = Ok("Invalid") /\ nmea' = nmea]_vars

\* a VTG with course and speed arrived in a running tick of an engine that
\* does not require VTG, and its speed is not the stored one
C10_Witness ==
    /\ op = "parse_for_fix"
    /\ inp.message_id = "VTG"
    /\ "VTG" \notin nmea.required_sentences_for_nav
    /\ IsSome(inp.data.course) /\ IsSome(inp.data.knots)
    /\ nmea.sentences_for_this_time # {}
    /\ nmea.speed_over_ground # inp.data.knots
    /\ ret = Ok("Invalid")

---------------------------------------------------------------------------
(* Properties of the satellite inventory *)

\* the state after merging sentences i..n of the scan in index order
RECURSIVE MergeInOrder(_, _, _, _)
MergeInOrder(self, talker_id, n, i) ==
    IF i > n THEN self
    ELSE MergeInOrder(merge_gsv_data(self, parse_gsv(ScanSentence(talker_id, n, i)).val).st,
                      talker_id, n, i + 1)

\* every sentence of one scan has been merged into a fresh engine, each
\* index once, and no other GSV sentence
ScanComplete ==
    /\ ~hist.mixed
    /\ IsSome(hist.scan)
    /\ Len(hist.order) = hist.scan[1][2]

\* C12: when the N sentences of one scan of one constellation (the same
\* number_of_sentences N, each index of 1..N once) have been merged into a
\* fresh engine, in whatever order they arrived, the flattened satellite
\* list is the list that merging them in index order gives: the same
\* satellites in the same order.
C12_AnyOrderSameList ==
    Returned /\ ScanComplete =>
        nmea.satellites =
            MergeInOrder(New, hist.scan[1][1], hist.scan[1][2], 1).satellites

\* the scan of three arrived as 3, 1, 2 and the list holds its five
\* satellites
C12_Witness ==
    /\ ScanComplete
    /\ hist.scan = Some(<<"GP", 3>>)
    /\ hist.order = <<3, 1, 2>>
    /\ Len(nmea.satellites) = 5

\* the satellites of one constellation, in the order of the list
SatsOf(q, g) == SelectSeq(q, LAMBDA sat : sat.gnss_type = g)

RECURSIVE SumLen(_)
SumLen(q) == IF q = <<>> THEN 0 ELSE Len(Head(q)) + SumLen(Tail(q))

\* the satellites of every constellation stand together in the list
Grouped(q) ==
    \A i, j, k \in 1..Len(q) :
        i < j /\ j < k /\ q[i].gnss_type = q[k].gnss_type
            => q[j].gnss_type = q[i].gnss_type

\* C13: in every state left by a call that returned, tick resets and clears
\* included, the flattened satellite list is the concatenation, constellation
\* by constellation and in slot order within a constellation, of the
\* satellites in the inventory slots: it holds nothing else, the satellites
\* of a constellation stand together, and they are the slots of that
\* constellation one after another.  After sentences 2 and 3 of a scan of 3
\* alone the list is the satellites of slots 2 and 3.
C13_ListIsInventory ==
    Returned =>
        /\ \A g \in DOMAIN nmea.satellites_scan :
              SatsOf(nmea.satellites, g) = Concat(nmea.satellites_scan[g])
        /\ Len(nmea.satellites) =
              SumLen([i \in 1..Len(ScanOrder) |-> Concat(nmea.satellites_scan[ScanOrder[i]])])
        /\ Grouped(nmea.satellites)
        /\ ~hist.mixed /\ hist.scan = Some(<<"GP", 3>>) /\ hist.order = <<2, 3>> =>
              nmea.satellites =
                  FilterSome(parse_gsv(ScanSentence("GP", 3, 2)).val.sats_info)
                  \o FilterSome(parse_gsv(ScanSentence("GP", 3, 3)).val.sats_info)

\* a tick reset came while both constellations had satellites in their
\* slots, one GPS scan only partly received
C13_Witness ==
    /\ Returned
    /\ op = "parse_for_fix"
    /\ nmea.sentences_for_this_time = {"RMC"}
    /\ nmea.last_fix_time = Some(2)
    /\ Len(nmea.satellites_scan["Gps"]) = 3
    /\ nmea.satellites_scan["Gps"][1] = <<>>
    /\ nmea.satellites_scan["Gps"][3] # <<>>
    /\ Concat(nmea.satellites_scan["Glonass"]) # <<>>
    /\ Len(nmea.satellites) >= 3

---------------------------------------------------------------------------
(* Properties of failed calls *)

\* C14: a call of parse or parse_for_fix that returns a failure (input too
\* long, framing, cut-off input, checksum, payload decode, unknown sentence
\* type) leaves every field of the session state as it was before the call,
\* the satellite inventory, the stored tick time and the observed set
\* included; a GGA that parse rejects on a fresh engine leaves the fix type
\* unset.
C14_FailureChangesNothing ==
    [][~ret'.ok => nmea' = nmea]_vars

\* a sentence with a checksum mismatch was given to parse_for_fix in a
\* running tick with a fix stored
C14_Witness ==
    /\ op = "parse_for_fix"
    /\ ret = Err("ChecksumFail")
    /\ IsSome(nmea.last_fix_time)
    /\ nmea.sentences_for_this_time # {}
    /\ IsSome(nmea.fix_type)
    /\ IsSome(nmea.latitude)

---------------------------------------------------------------------------
(* Properties of the framing, the checksum and the dispatch *)

\* C16: the framer returns TooLongMessage for every input of more than 102
\* bytes, whatever it holds (also when it starts with, or is, a sentence of
\* correct grammar and checksum), and for no input of 102 bytes or fewer.
C16_TooLongIffOver102 ==
    op = "framed" => (Len(inp) > 102 <=> ret = Err("TooLongMessage"))

\* an input of 103 bytes that is a sentence of correct grammar and checksum
\* was refused for its length
C16_Witness ==
    /\ op = "framed"
    /\ Len(inp) = 103
    /\ Tokenise(inp).frame = "Done"
    /\ Tokenise(inp).checksum = Tokenise(inp).sum
    /\ ret = Err("TooLongMessage")

\* the value of a hex digit written in upper case, -1 for any other byte
UpperHexValue(b) ==
    IF b \in 48..57 THEN b - 48
    ELSE IF b \in 65..70 THEN b - 55
    ELSE -1

\* the upper-case letter of a lower-case one
ToUpper(b) == IF b \in 97..122 THEN b - 32 ELSE b

\* C17: a sentence that frames but whose computed checksum differs from the
\* value of its checksum digits yields ChecksumFail, whatever its message id
\* and whether or not its payload would decode, so that a decoded payload or
\* a payload failure is only ever returned for a matching checksum; and the
\* value of the two checksum digits is the same for upper-case and lower-case
\* letters.
C17_ChecksumBeforePayload ==
    /\ op = "decoded" /\ parse_nmea_sentence(inp).ok =>
          /\ inp.checksum # calc_checksum(inp) => ret = Failure("ChecksumFail")
          /\ inp.checksum = calc_checksum(inp) => ret # Failure("ChecksumFail")
    /\ op = "framed" /\ ret.ok =>
          LET star == FindStar(inp, 8)
              d1 == UpperHexValue(ToUpper(inp[star + 1]))
              d2 == UpperHexValue(ToUpper(inp[star + 2]))
          IN  d1 >= 0 /\ d2 >= 0 => ret.val.checksum = 16 * d1 + d2

\* an RMC with a status letter outside the grammar and a checksum that does
\* not match was answered with ChecksumFail
C17_Witness ==
    /\ op = "decoded"
    /\ inp.message_id = "RMC"
    /\ inp.data.status = "X"
    /\ inp.checksum # calc_checksum(inp)
    /\ ret = Failure("ChecksumFail")

\* the computed checksum of a framed input is the XOR of the bytes between
\* '$' and the '*' that ends the payload
ChecksumIsXorOfSpan ==
    op = "framed" /\ ret.ok =>
        calc_checksum(ret.val) = checksum(SubSeq(inp, 2, FindStar(inp, 8) - 1))

\* C18 as stated: the computed checksum is the XOR of every byte between
\* '$' and '*', and changing any one bit of any one byte in that span of a
\* sentence that validates gives a sentence that does not validate.
C18_AnyFlipInvalidates ==
    /\ ChecksumIsXorOfSpan
    /\ op = "flipped" => ~ret.ok

\* C18 amended: the computed checksum is the XOR of every byte between '$'
\* and '*', and changing one bit of one byte in that span of a sentence that
\* validates gives a sentence that does not validate, unless the changed
\* byte becomes a '*': the payload then ends at that byte and the two bytes
\* after it are read as the checksum digits.
C18_FlipInvalidatesUnlessStar ==
    /\ ChecksumIsXorOfSpan
    /\ op = "flipped" /\ inp[hist.pos] # 42 => ~ret.ok

\* a bit of a payload byte was changed and the checksum no longer matched
C18_Witness ==
    /\ op = "flipped"
    /\ hist.pos >= 8
    /\ inp[hist.pos] # 42
    /\ ret = Err("ChecksumFail")

\* C19: a GSV sentence of correct grammar and checksum with talker GP or GL
\* is decoded to a GSV record by the stateless decode, and Nmea::parse merges
\* it into the inventory and returns the GSV sentence type.
C19_GsvDispatched ==
    /\ op = "parse"
    /\ WellFormed(inp)
    /\ inp.message_id = "GSV"
    /\ inp.talker_id \in {"GP", "GL"}
    => /\ parse(inp).ok
       /\ parse(inp).kind = "GSV"
       /\ ret = Ok("GSV")
       /\ GsvMerged(nmea, inp)

\* C20: for a sentence of correct grammar and checksum whose message id is
\* none of GGA, RMC, GSA, VTG, GSV, the stateless decode returns Unsupported
\* with the message id of the sentence, whatever the payload.
C20_UnknownIdUnsupported ==
    /\ op = "decoded"
    /\ WellFormed(inp)
    /\ inp.message_id \notin {"GGA", "RMC", "GSA", "VTG", "GSV"}
    => ret = [ok |-> TRUE, kind |-> "Unsupported", val |-> inp.message_id]

\* a ZDA sentence with a payload of no grammar came back as Unsupported
C20_Witness ==
    /\ op = "decoded"
    /\ inp.message_id = "ZDA"
    /\ inp.data # <<>>
    /\ ret.ok
    /\ ret.kind = "Unsupported"
    /\ ret.val = "ZDA"

---------------------------------------------------------------------------
(* Properties of the ungated merge *)

\* the session fields a decoded sentence carries, with the values it carries
Carried(r) ==
    CASE r.kind = "GGA" ->
           [fix_time              |-> r.val.fix_time,
            latitude              |-> r.val.latitude,
            longitude             |-> r.val.longitude,
            fix_type              |-> r.val.fix_type,
            num_of_fix_satellites |-> r.val.fix_satellites,
            hdop                  |-> r.val.hdop,
            altitude              |-> r.val.altitude,
            geoid_height          |-> r.val.geoid_height]
      [] r.kind = "RMC" ->
           [fix_time          |-> r.val.fix_time,
            fix_date          |-> r.val.fix_date,
            fix_type          |-> IF r.val.status_of_fix = Some("Autonomous") THEN Some("Gps")
                                  ELSE IF r.val.status_of_fix = Some("Differential")
                                  THEN Some("DGps")
                                  ELSE IF r.val.status_of_fix = Some("Invalid")
                                  THEN Some("Invalid")
                                  ELSE None,
            latitude          |-> r.val.lat,
            longitude         |-> r.val.lon,
            speed_over_ground |-> r.val.speed_over_ground,
            true_course       |-> r.val.true_course]
      [] r.kind = "GSA" ->
           [fix_satellites_prns |-> Some(r.val.fix_sats_prn),
            hdop                |-> r.val.hdop,
            vdop                |-> r.val.vdop,
            pdop                |-> r.val.pdop]
      [] r.kind = "VTG" ->
           [speed_over_ground |-> r.val.speed_over_ground,
            true_course       |-> r.val.true_course]

\* C21: Nmea::parse never gates or clears: for every GGA, RMC, GSA or VTG
\* that decodes it returns the sentence-type tag, sets every field the
\* sentence type carries to the sentence's value (unset when the field is
\* blank) and leaves every other field, the stored tick time and the
\* observed set as they were; a GGA with fix-quality 0 returns GGA and stores
\* the fix type Invalid.
C21_ParseOverwritesItsFields ==
    [][op' = "parse" =>
          \A r \in {parse(inp')} :
              r.ok /\ r.kind \in {"GGA", "RMC", "GSA", "VTG"} =>
                  \A c \in {Carried(r)} :
                      /\ ret' = Ok(r.kind)
                      /\ \A f \in DOMAIN nmea :
                            nmea'[f] = IF f \in DOMAIN c THEN c[f] ELSE nmea[f]
                      /\ inp'.message_id = "GGA" /\ inp'.data.fix_quality = "0" =>
                            nmea'.fix_type = Some("Invalid")]_vars

\* parse took a GGA with fix-quality 0 in a running tick that had seen RMC
\* and GGA: it returned GGA, the fix type is Invalid, the date, the tick time
\* and the observed set are still there
C21_Witness ==
    /\ op = "parse"
    /\ inp.message_id = "GGA"
    /\ inp.data.fix_quality = "0"
    /\ ret = Ok("GGA")
    /\ nmea.fix_type = Some("Invalid")
    /\ nmea.sentences_for_this_time = {"RMC", "GGA"}
    /\ IsSome(nmea.last_fix_time)
    /\ IsSome(nmea.fix_date)

---------------------------------------------------------------------------
(* Properties of the payload decoders *)

\* the satellites in the slots of constellation g
SlotSats(st, g) == Concat(st.satellites_scan[g])

\* C22: the GSV decoder maps talker GP to GPS and GL to GLONASS and stamps
\* that tag on the record and on every satellite of it; for any other talker
\* it fails with UnknownGnss, after the test of the message id (a sentence
\* that is no GSV fails with InvalidMessageId whatever its talker) and before
\* the payload is read (a payload that does not decode makes no difference);
\* so every satellite merged stands under its own constellation, GPS or
\* GLONASS, and no satellite of another talker is merged.
C22_GsvConstellation ==
    /\ op = "gsv" =>
          /\ inp.message_id # "GSV" => ret = Err("InvalidMessageId")
          /\ inp.message_id = "GSV" /\ inp.talker_id \notin {"GP", "GL"} =>
                ret = Err("UnknownGnss")
          /\ ret.ok =>
                /\ inp.talker_id \in {"GP", "GL"}
                /\ ret.val.gnss_type = (IF inp.talker_id = "GP" THEN "Gps" ELSE "Glonass")
                /\ \A i \in 1..4 :
                      /\ IsSome(ret.val.sats_info[i]) <=> IsSome(inp.data.sats[i])
                      /\ IsSome(ret.val.sats_info[i]) =>
                            ret.val.sats_info[i][1].gnss_type = ret.val.gnss_type
    /\ \A g \in DOMAIN nmea.satellites_scan :
          /\ \A k \in 1..Len(SlotSats(nmea, g)) : SlotSats(nmea, g)[k].gnss_type = g
          /\ SlotSats(nmea, g) # <<>> =>
                /\ g \in {"Gps", "Glonass"}
                /\ inp.talker_id = (IF g = "Gps" THEN "GP" ELSE "GL")

\* a GSV sentence of talker GA whose payload does not decode was refused
\* for its talker
C22_Witness ==
    /\ op = "gsv"
    /\ inp.message_id = "GSV"
    /\ inp.talker_id = "GA"
    /\ inp.data.number_of_sentences > U16Max
    /\ ret = Err("UnknownGnss")

\* the time field of the sentence has an hour of 24 or more or a minute of
\* 60 or more
TimeOutOfRange(xs) ==
    /\ IsSome(xs.data.time)
    /\ xs.data.time[1] \div 100 >= 24 \/ xs.data.time[1] % 100 >= 60

\* C23: decoding a GGA or RMC sentence of matching checksum whose time field
\* has an hour of 24 or more or a minute of 60 or more fails, the failure
\* returned is InvalidTime, and no record with such a time is produced.
C23_InvalidTimeReported ==
    /\ op = "decoded"
    /\ WellFormed(inp)
    /\ inp.message_id \in {"GGA", "RMC"}
    /\ TimeOutOfRange(inp)
    => ret = Failure("InvalidTime")

\* the part of C23 the decode keeps: such a sentence fails, and no record
\* decoded carries a time out of range
OutOfRangeTimeFails ==
    op = "decoded" /\ inp.message_id \in {"GGA", "RMC"} =>
        /\ TimeOutOfRange(inp) => ~ret.ok
        /\ ret.ok /\ IsSome(ret.val.fix_time) =>
              ret.val.fix_time[1] \div 100 < 24 /\ ret.val.fix_time[1] % 100 < 60

\* C24: the speed of a decoded VTG sentence in the standard layout
\* (`<course>,T,<magn>,M,<knots>,N,<kmh>,K`) is the knots field when it is
\* present; when the knots field is blank and the km/h field is present it
\* is the km/h value divided by 1.852; it is unset only when both are blank.
C24_VtgSpeed ==
    /\ op = "decoded"
    /\ WellFormed(inp)
    /\ inp.message_id = "VTG"
    /\ inp.data.layout = ",N,<kmh>"
    => /\ ret.ok
       /\ ret.val.speed_over_ground =
             IF IsSome(inp.data.knots) THEN inp.data.knots
             ELSE IF IsSome(inp.data.kph) THEN Some(KphToKnots(inp.data.kph[1]))
             ELSE None

\* the part of C24 the decoder keeps: the knots field, when present, is the
\* speed, and with both speed fields blank the speed is unset
VtgKnotsFirst ==
    op = "decoded" /\ WellFormed(inp) /\ inp.message_id = "VTG" =>
        /\ ret.ok
        /\ IsSome(inp.data.knots) => ret.val.speed_over_ground = inp.data.knots
        /\ IsNone(inp.data.knots) /\ IsNone(inp.data.kph) =>
              IsNone(ret.val.speed_over_ground)

---------------------------------------------------------------------------
(* Properties of the inventory slots *)

\* slot j of a slot sequence, empty when the sequence is shorter
SlotOr(d, j) == IF j <= Len(d) THEN d[j] ELSE <<>>

\* the call merged a GSV sentence whose index lies within its scan
InScanMerge(o, xs) ==
    /\ o \in {"parse", "parse_for_fix"}
    /\ xs.message_id = "GSV"
    /\ xs.data.sentence_num \in 1..xs.data.number_of_sentences

\* C25: merging a GSV sentence with index k, 1 <= k <= number_of_sentences,
\* returns and leaves in slot k of its constellation that sentence's present
\* satellites and nothing of what the slot held; the other slots with index
\* up to number_of_sentences of that constellation are as they were (empty
\* where there was none), and so are all slots of the other constellations.
C25_SlotReplaced ==
    [][InScanMerge(op', inp') =>
          \A gsv \in {parse_gsv(inp').val} :
              /\ ret'.ok
              /\ nmea'.satellites_scan[gsv.gnss_type][gsv.sentence_num]
                    = FilterSome(gsv.sats_info)
              /\ \A j \in 1..gsv.number_of_sentences :
                    j # gsv.sentence_num =>
                        nmea'.satellites_scan[gsv.gnss_type][j]
                            = SlotOr(nmea.satellites_scan[gsv.gnss_type], j)
              /\ \A g \in DOMAIN nmea.satellites_scan :
                    g # gsv.gnss_type =>
                        nmea'.satellites_scan[g] = nmea.satellites_scan[g]]_vars

\* the first sentence of a later GPS scan went to a slot that held the
\* satellites of the earlier scan, while slots 2 and 3 and the GLONASS slots
\* held theirs
C25_Witness ==
    /\ op \in {"parse", "parse_for_fix"}
    /\ inp = RescanSentence("GP", MaxScan, 1)
    /\ hist.replaced
    /\ Len(nmea.satellites_scan["Gps"][1]) = 1
    /\ nmea.satellites_scan["Gps"][2] # <<>>
    /\ nmea.satellites_scan["Gps"][3] # <<>>
    /\ Concat(nmea.satellites_scan["Glonass"]) # <<>>

---------------------------------------------------------------------------
(* Properties of the verdict and of the tick bookkeeping *)

\* the fix type an RMC status letter or a GGA fix-quality digit stands for
DerivedFixType(xs) ==
    IF xs.message_id = "RMC"
    THEN CASE xs.data.status = "A" -> "Gps"
           [] xs.data.status = "D" -> "DGps"
           [] OTHER -> "Invalid"
    ELSE CASE xs.data.fix_quality = "1" -> "Gps"
           [] xs.data.fix_quality = "2" -> "DGps"
           [] xs.data.fix_quality = "3" -> "Pps"
           [] xs.data.fix_quality = "4" -> "Rtk"
           [] xs.data.fix_quality = "5" -> "FloatRtk"
           [] xs.data.fix_quality = "6" -> "Estimated"
           [] xs.data.fix_quality = "7" -> "Manual"
           [] xs.data.fix_quality = "8" -> "Simulation"
           [] OTHER -> "Invalid"

\* C26: when parse_for_fix returns a fix type other than Invalid on an RMC
\* or GGA sentence, it is the fix type of that very sentence (RMC status A:
\* GPS, D: Differential GPS; GGA digits 1..8: GPS, Differential GPS, PPS,
\* RTK, Float RTK, Estimated, Manual, Simulation) and the stored fix type is
\* the same, whatever fix type an earlier sentence of the tick had stored.
C26_LastWriteWins ==
    ValidReturned /\ inp.message_id \in {"RMC", "GGA"} =>
        /\ ret.val = DerivedFixType(inp)
        /\ nmea.fix_type = Some(DerivedFixType(inp))

\* a GGA with fix-quality 5 came after an RMC of the same tick and the
\* verdict was Float RTK
C26_Witness ==
    /\ ValidReturned
    /\ inp.message_id = "GGA"
    /\ inp.data.fix_quality = "5"
    /\ hist.prev = {"RMC"}
    /\ hist.seen = RmcGga
    /\ ret.val = "FloatRtk"

\* the sentence types parse_for_fix records as observed
Observable == {"RMC", "GGA", "VTG"}

\* C27: in every reachable state the observed set holds only RMC, GGA and
\* VTG; an engine whose mandatory set holds any other sentence type, GSA or
\* GSV for one, never gets a fix type other than Invalid from parse_for_fix.
C27_OnlyObservableCount ==
    /\ nmea.sentences_for_this_time \subseteq Observable
    /\ ~(nmea.required_sentences_for_nav \subseteq Observable)
       /\ op = "parse_for_fix" /\ ret.ok
       => ret.val = "Invalid"

\* an engine that requires GGA and GSV was given a valid GGA: the fix type
\* is stored, GGA is observed, and the verdict is Invalid
C27_Witness ==
    /\ nmea.required_sentences_for_nav = {"GGA", "GSV"}
    /\ op = "parse_for_fix"
    /\ inp.message_id = "GGA"
    /\ nmea.fix_type = Some("Gps")
    /\ "GGA" \in nmea.sentences_for_this_time
    /\ ret = Ok("Invalid")

\* C28: in an engine driven by parse_for_fix alone, whenever RMC or GGA is
\* in the observed set the stored tick time is set and is the fix time field;
\* a fix type other than Invalid is returned only in such a state, and the
\* fix time is then the time of the RMC and GGA sentences counted in the
\* observed set.
C28_TickTimeIsFixTime ==
    /\ nmea.sentences_for_this_time \cap RmcGga # {} =>
          /\ IsSome(nmea.last_fix_time)
          /\ nmea.last_fix_time = nmea.fix_time
    /\ ValidReturned =>
          /\ nmea.sentences_for_this_time \cap RmcGga # {}
          /\ nmea.sentences_for_this_time \cap RmcGga \subseteq hist.seen
          /\ nmea.fix_time = hist.time

\* the second tick of the engine: an RMC and a GGA with the second time were
\* counted and the fix was returned with that time
C28_Witness ==
    /\ ValidReturned
    /\ hist.tick = "same"
    /\ nmea.sentences_for_this_time = RmcGga
    /\ nmea.fix_time = Some(2)
    /\ nmea.last_fix_time = Some(2)

\* the sentence is fix-invalidating for parse_for_fix in the state: an RMC
\* with status V, a GGA with fix-quality 0, an RMC or GGA without time, or a
\* VTG without course or speed when VTG is mandatory
Invalidating(self, xs) ==
    \/ InvalidFix(xs)
    \/ ValidFix(xs) /\ IsNone(xs.data.time)
    \/ /\ xs.message_id = "VTG"
       /\ "VTG" \in self.required_sentences_for_nav
       /\ parse(xs).ok
       /\ IsNone(parse(xs).val.true_course) \/ IsNone(parse(xs).val.speed_over_ground)

\* C29: a fix-invalidating sentence given to parse_for_fix clears the fix
\* and leaves the satellite inventory, the flattened satellite list and the
\* mandatory set as they were before the call; and no call of parse or
\* parse_for_fix changes the mandatory set.
C29_ClearKeepsInventory ==
    [][/\ nmea'.required_sentences_for_nav = nmea.required_sentences_for_nav
       /\ op' = "parse_for_fix" /\ Invalidating(nmea, inp') =>
             /\ ret' = Ok("Invalid")
             /\ Cleared(nmea')
             /\ nmea'.satellites_scan = nmea.satellites_scan
             /\ nmea'.satellites = nmea.satellites]_vars

\* a VTG without course cleared an engine that requires VTG and holds
\* satellites of two constellations
C29_Witness ==
    /\ op = "parse_for_fix"
    /\ inp.message_id = "VTG"
    /\ "VTG" \in nmea.required_sentences_for_nav
    /\ Cleared(nmea)
    /\ Concat(nmea.satellites_scan["Gps"]) # <<>>
    /\ Concat(nmea.satellites_scan["Glonass"]) # <<>>
    /\ Len(nmea.satellites) >= 2

\* the elements of a sequence
Range(q) == {q[i] : i \in 1..Len(q)}

\* C30: after merging a GSV sentence that announces n sentences, with index
\* k in 1..n, the slot sequence of its constellation has exactly n slots;
\* the slots above n that an earlier scan had filled are gone and their
\* satellites are no longer in the flattened list, whose satellites of that
\* constellation are those of the n slots; every slot up to n other than k
\* is what the earlier scan left there.
C30_ExactlyNSlots ==
    [][InScanMerge(op', inp') =>
          \A gsv \in {parse_gsv(inp').val} :
              \A d \in {nmea.satellites_scan[gsv.gnss_type]} :
                  /\ Len(nmea'.satellites_scan[gsv.gnss_type]) = gsv.number_of_sentences
                  /\ SatsOf(nmea'.satellites, gsv.gnss_type)
                        = Concat(nmea'.satellites_scan[gsv.gnss_type])
                  /\ \A j \in 1..Len(d) :
                        j > gsv.number_of_sentences =>
                            Range(d[j]) \cap Range(nmea'.satellites) = {}
                  /\ \A j \in 1..gsv.number_of_sentences :
                        j # gsv.sentence_num /\ j <= Len(d) =>
                            nmea'.satellites_scan[gsv.gnss_type][j] = d[j]]_vars

\* the second sentence of a scan of two came after a scan of three: the
\* third slot and its satellites are gone, the first slot is kept
C30_Witness ==
    /\ op \in {"parse", "parse_for_fix"}
    /\ inp = ScanSentence("GP", 2, 2)
    /\ hist.dropped
    /\ Len(nmea.satellites_scan["Gps"]) = 2
    /\ nmea.satellites_scan["Gps"][1] # <<>>
    /\ Len(SatsOf(nmea.satellites, "Gps")) = Len(Concat(nmea.satellites_scan["Gps"]))

====
